---- MODULE Spec2Model ----
(***************************************************************************)
(* Session log writer of the sensor rig (logger.py): init_log and log_data *)
(* acting on the module globals LOG_FILE and _initialized and on the files *)
(* of SCRIPT_DIR, with the wall clock that names the session files; and    *)
(* the sampling loop of main.py that polls sensor.py and gps.py, merges    *)
(* the fragments, logs the merged reading and renders it.                  *)
(*                                                                         *)
(* Strings are sequences of string pieces: "" is <<>>, and a formatted     *)
(* timestamp is the sequence of its characters.  Python's None is PyNone.  *)
(* A file is a sequence of rows, a row a sequence of cells.  Writes are    *)
(* modelled at the granularity of one CSV row.                             *)
(***************************************************************************)
EXTENDS Naturals, Sequences, FiniteSets, TLC

VARIABLES
    now,            \* wall clock, in steps of 1/SubSec second since 1 Jan 00:00:00
    boot,           \* the clock value at process start
    LOG_FILE,       \* logger.LOG_FILE: PyNone or the session file's name
    _initialized,   \* logger._initialized
    files,          \* the files of SCRIPT_DIR: name -> rows
    sessions,       \* history: the last two sessions init_log created, oldest first
    ret,            \* history: what the last step did
    pc,             \* main.py: where the process is ("idle" when main() is not run)
    running,        \* main.running
    clock,          \* time elapsed since process start, in units of 0.1 s
    current_time,   \* main(): current_time
    last_log_time,  \* main(): last_log_time
    last_sensor_read, \* main(): last_sensor_read
    history,        \* main.history: the three bounded deques
    cached_merged,  \* main(): cached_merged
    sensor,         \* sensor.sensor: "None" or "object"
    _ser,           \* gps._ser: "None" or "open"
    status,         \* the process: "alive", "exit0" or "exit1"
    trace           \* history: what the loop has done so far

logVars == <<now, boot, LOG_FILE, _initialized, files, sessions, ret>>
mainVars == <<pc, running, clock, current_time, last_log_time, last_sensor_read,
              history, cached_merged, sensor, _ser, status, trace>>
vars == <<now, boot, LOG_FILE, _initialized, files, sessions, ret,
          pc, running, clock, current_time, last_log_time, last_sensor_read,
          history, cached_merged, sensor, _ser, status, trace>>

-----------------------------------------------------------------------------
(* Bounds of the model *)

\* clock steps per second (the clock is finer than the filename's resolution)
SubSec == 2
\* how many clock steps a run lasts
MaxTicks == 2
\* log_data is called only while every file has fewer rows than this
MaxRows == 4

-----------------------------------------------------------------------------
(* Strings, None, the clock and strftime *)

PyNone == <<"None">>
Blank == <<>>

DigitChars == <<"0", "1", "2", "3", "4", "5", "6", "7", "8", "9">>
Digit(d) == DigitChars[d + 1]
\* %m %d %H %M %S: two digits, zero padded
Pad2(n) == <<Digit(n \div 10), Digit(n % 10)>>
\* %Y: the runs of the model stay within one (non-leap) year
YearDigits == <<"2", "0", "2", "5">>
MonthLen == <<31, 28, 31, 30, 31, 30, 31, 31, 30, 31, 30, 31>>

RECURSIVE MonthDay(_, _)
\* <<month, day of month>> of the d-th day (from 0) counted from the first of month m
MonthDay(d, m) ==
    IF d < MonthLen[m] THEN <<m, d + 1>> ELSE MonthDay(d - MonthLen[m], m + 1)

\* datetime.now() broken into fields; the sub-second part is dropped by strftime
Seconds(t) == t \div SubSec
DateOf(t) == MonthDay(Seconds(t) \div 86400, 1)
HourOf(t) == (Seconds(t) % 86400) \div 3600
MinuteOf(t) == (Seconds(t) % 3600) \div 60
SecondOf(t) == Seconds(t) % 60

\* datetime.now().strftime("%Y%m%d_%H%M%S")
StampCompact(t) ==
    YearDigits \o Pad2(DateOf(t)[1]) \o Pad2(DateOf(t)[2]) \o <<"_">>
        \o Pad2(HourOf(t)) \o Pad2(MinuteOf(t)) \o Pad2(SecondOf(t))

\* datetime.now().strftime("%Y-%m-%d %H:%M:%S")
StampHuman(t) ==
    YearDigits \o <<"-">> \o Pad2(DateOf(t)[1]) \o <<"-">> \o Pad2(DateOf(t)[2])
        \o <<" ">> \o Pad2(HourOf(t)) \o <<":">> \o Pad2(MinuteOf(t))
        \o <<":">> \o Pad2(SecondOf(t))

\* f"rake_log_{timestamp}.csv" joined to SCRIPT_DIR
generate_log_filename(t) ==
    <<"SCRIPT_DIR/", "rake_log_">> \o StampCompact(t) \o <<".csv">>

\* ord() of the characters in which two filenames can differ
Ord(c) ==
    IF c = "_" THEN 95
    ELSE 47 + (CHOOSE i \in 1..10 : DigitChars[i] = c)

\* a < b as Python compares strings (filenames are compared piece by piece)
LexLess(a, b) ==
    \E i \in 1..Len(a) :
        /\ i <= Len(b)
        /\ \A j \in 1..(i - 1) : a[j] = b[j]
        /\ a[i] # b[i]
        /\ Ord(a[i]) < Ord(b[i])

\* process start instants the model explores (clock steps since 1 Jan 00:00:00):
\* 31 Jan 23:59:59 (every field of the stamp rolls over) and 9 Mar 09:59:58
StartSeconds == {30 * 86400 + 86399, 67 * 86400 + 9 * 3600 + 59 * 60 + 58}
StartTimes == {s * SubSec : s \in StartSeconds}

-----------------------------------------------------------------------------
(* Rows *)

FIELD_NAMES ==
    <<"timestamp", "temperature", "humidity", "pressure", "gas",
      "latitude", "longitude", "altitude">>

\* w.writerow(FIELD_NAMES)
HeaderRow == [i \in 1..Len(FIELD_NAMES) |-> <<FIELD_NAMES[i]>>]

\* w.writerow([f"# New session {session_time}"] + ["" for _ in FIELD_NAMES[1:]])
MarkerRow(t) ==
    <<(<<"# New session ">> \o StampHuman(t))>>
        \o [i \in 1..(Len(FIELD_NAMES) - 1) |-> Blank]

\* data.get(k)
Get(data, k) == IF k \in DOMAIN data THEN data[k] ELSE PyNone

\* a writer that stamps every row itself, whatever the dict carries
WithTimestamp_Overwrite(data, t) ==
    [k \in DOMAIN data \cup {"timestamp"} |->
        IF k = "timestamp" THEN StampHuman(t) ELSE data[k]]

\* data_with_timestamp: the input with the timestamp filled in when it has none
WithTimestamp(data, t) ==
    IF Get(data, "timestamp") = PyNone
    THEN [k \in DOMAIN data \cup {"timestamp"} |->
             IF k = "timestamp" THEN StampHuman(t) ELSE data[k]]
    ELSE data

\* Row with line 107's test for None left out: None reaches the writer
Row_NoneKept(data, t) ==
    [i \in 1..Len(FIELD_NAMES) |-> Get(WithTimestamp(data, t), FIELD_NAMES[i])]

\* the row log_data writes: DictWriter puts the cells in FIELD_NAMES order
Row(data, t) ==
    LET d == WithTimestamp(data, t)
    IN  [i \in 1..Len(FIELD_NAMES) |->
            IF Get(d, FIELD_NAMES[i]) = PyNone THEN Blank ELSE Get(d, FIELD_NAMES[i])]

\* the dicts handed to log_data
Readings ==
    { [timestamp |-> <<"sensor-iso">>, temperature |-> <<"21.0">>,
       humidity |-> <<"40.0">>, pressure |-> <<"1013.2">>, gas |-> <<"52000">>,
       latitude |-> <<"37.8">>, longitude |-> <<"-122.2">>, altitude |-> <<"10.0">>],
      [timestamp |-> PyNone, temperature |-> <<"21.0">>, gas |-> PyNone,
       heat_stable |-> <<"False">>] }

-----------------------------------------------------------------------------
(* The file system *)

Exists(fs, name) == name \in DOMAIN fs
Contents(fs, name) == IF Exists(fs, name) THEN fs[name] ELSE <<>>
Write(fs, name, rows) ==
    [f \in DOMAIN fs \cup {name} |-> IF f = name THEN rows ELSE fs[f]]
Remove(fs, name) == [f \in DOMAIN fs \ {name} |-> fs[f]]

-----------------------------------------------------------------------------
(* logger.py.  The writer's state is the record                            *)
(*   [LOG_FILE, _initialized, files].                                      *)
(* A call's result depends on what the file system does during it, so each *)
(* function yields the set of its possible outcomes.                       *)

\* what the file system can do to init_log's try block: nothing ("ok"); makedirs
\* or open raises and the file is untouched ("open"); or the file is opened
\* (created or truncated) and an exception is raised after `rows` of the two
\* rows have reached it ("write")
InitIO ==
    {[at |-> "ok", rows |-> 2], [at |-> "open", rows |-> 0]}
        \cup {[at |-> "write", rows |-> k] : k \in 0..2}

\* what the file system can do to log_data's try block: nothing ("ok"); open
\* raises ("open"); the file is opened (created when missing) and the write
\* raises with nothing appended ("write")
AppendIO == {"ok", "open", "write"}

\* the guard of line 36 never taken: init_log starts a session on every call
AlreadyInitialized_Never(s) == FALSE

\* line 36: the guard of init_log's early return
AlreadyInitialized(s) ==
    s._initialized /\ s.LOG_FILE # PyNone /\ Exists(s.files, s.LOG_FILE)

\* an except block that forgets the name and keeps the flag
init_log_except_KeepsFlag(s) == [s EXCEPT !.LOG_FILE = PyNone]

\* the except block without line 71: the name of the failed session is kept
init_log_except_KeepsName(s) == [s EXCEPT !._initialized = FALSE]

\* lines 67-72: init_log's except block
init_log_except(s) == [s EXCEPT !.LOG_FILE = PyNone, !._initialized = FALSE]

\* lines 49-65: init_log's try block, under the file system's behaviour io
init_log_try(s, t, io) ==
    LET rows == <<HeaderRow, MarkerRow(t)>>
    IN  CASE io.at = "ok" ->
               [s EXCEPT !.files = Write(@, s.LOG_FILE, rows)]
          [] io.at = "open" -> s
          [] io.at = "write" ->
               [s EXCEPT !.files = Write(@, s.LOG_FILE, SubSeq(rows, 1, io.rows))]

\* init_log(): the outcomes [st, out], out being "already" (early return),
\* "ok" or "fail" (the except block ran)
init_log(s, t) ==
    IF AlreadyInitialized(s)
    THEN {[st |-> s, out |-> "already"]}
    ELSE LET \* lines 41-47: _initialized is cleared and set again, LOG_FILE renamed
             s1 == [s EXCEPT !.LOG_FILE = generate_log_filename(t),
                             !._initialized = TRUE]
         IN  { IF io.at = "ok"
               THEN [st |-> init_log_try(s1, t, io), out |-> "ok"]
               ELSE [st |-> init_log_except(init_log_try(s1, t, io)), out |-> "fail"]
               : io \in InitIO }

\* an external actor removes the writer's file, or does not
MayRemove(s) ==
    {s} \cup (IF s.LOG_FILE # PyNone /\ Exists(s.files, s.LOG_FILE)
              THEN {[s EXCEPT !.files = Remove(@, s.LOG_FILE)]}
              ELSE {})

\* the test of line 92 always true: every log_data starts a new session
LogFileMissing_Always(s) == TRUE

\* line 92: the test that sends log_data to re-initialise
LogFileMissing(s) == ~Exists(s.files, s.LOG_FILE)

\* an except block that gives the session up, as init_log's does
log_data_except_Resets(s, t) ==
    [s EXCEPT !.LOG_FILE = PyNone, !._initialized = FALSE]

\* an except block that begins a fresh session
log_data_except_Reinit(s, t) ==
    (CHOOSE r \in init_log([s EXCEPT !._initialized = FALSE], t) : r.out = "ok").st

\* lines 115-118: log_data's except block
log_data_except(s, t) == s

\* the session file opened with mode 'w': each append replaces the contents
log_data_write_Overwrite(s, t, data, io) ==
    CASE io = "ok" -> [s EXCEPT !.files = Write(@, s.LOG_FILE, <<Row(data, t)>>)]
      [] OTHER -> log_data_except(s, t)

\* lines 109-118: the append, under the file system's behaviour io
log_data_write(s, t, data, io) ==
    CASE io = "ok" ->
           [s EXCEPT !.files =
               Write(@, s.LOG_FILE, Append(Contents(@, s.LOG_FILE), Row(data, t)))]
      [] io = "open" -> log_data_except(s, t)
      [] io = "write" ->
           log_data_except(
               [s EXCEPT !.files = Write(@, s.LOG_FILE, Contents(@, s.LOG_FILE))], t)

\* The outcome records of log_data: the state it leaves, the init_log calls it
\* made, whether the file was removed under it, and how the append went
\* ("none": not attempted).  No exception leaves log_data: both try blocks
\* catch Exception.
Outcome(s, inits, removed, append) ==
    [st |-> s, inits |-> inits, removed |-> removed, append |-> append,
     raised |-> FALSE]

\* log_data_append returning after a re-initialisation instead of writing
log_data_append_Dropping(s, t, data, inits, removed) ==
    IF inits # <<>>
    THEN {Outcome(s, inits, removed, "none")}
    ELSE { Outcome(log_data_write(s2, t, data, io), inits, removed \/ s2 # s,
                   IF io = "ok" THEN "ok" ELSE "fail")
           : s2 \in MayRemove(s), io \in AppendIO }

\* lines 101-118, with the file possibly removed between line 92 and line 110
log_data_append(s, t, data, inits, removed) ==
    { Outcome(log_data_write(s2, t, data, io), inits, removed \/ s2 # s,
              IF io = "ok" THEN "ok" ELSE "fail")
      : s2 \in MayRemove(s), io \in AppendIO }

\* lines 91-99, with the file possibly removed before line 92
log_data_check(s, t, data, inits, removed) ==
    UNION {
        IF LogFileMissing(s2)
        THEN UNION {
                 IF r.st.LOG_FILE = PyNone
                 THEN {Outcome(r.st, inits \o <<r.out>>, removed \/ s2 # s, "none")}
                 ELSE log_data_append(r.st, t, data, inits \o <<r.out>>,
                                      removed \/ s2 # s)
                 : r \in init_log([s2 EXCEPT !._initialized = FALSE], t) }
        ELSE log_data_append(s2, t, data, inits, removed \/ s2 # s)
        : s2 \in MayRemove(s) }

\* log_data(data)
log_data(s, t, data) ==
    IF s.LOG_FILE = PyNone
    THEN UNION {
             IF r.st.LOG_FILE = PyNone
             THEN {Outcome(r.st, <<r.out>>, FALSE, "none")}
             ELSE log_data_check(r.st, t, data, <<r.out>>, FALSE)
             : r \in init_log(s, t) }
    ELSE log_data_check(s, t, data, <<>>, FALSE)

-----------------------------------------------------------------------------
(* The state machine: a process that calls init_log and log_data in any    *)
(* order while the clock advances and files may be removed from outside.   *)

Writer == [LOG_FILE |-> LOG_FILE, _initialized |-> _initialized, files |-> files]

NoData == [k \in {} |-> Blank]

\* the history record of a step: the call made, the outcomes of the init_log
\* calls within it, whether the file was removed under it, how the append went,
\* whether an exception reached the caller, and the dict passed to log_data
Event(op, inits, removed, append, raised, data) ==
    [op |-> op, inits |-> inits, removed |-> removed, append |-> append,
     raised |-> raised, data |-> data]

\* the sessions created by the init_log calls of a step: when, and under which name
Created(inits, t) ==
    [i \in 1..Len(SelectSeq(inits, LAMBDA o : o = "ok")) |->
        [t |-> t, name |-> generate_log_filename(t)]]

\* the history of sessions keeps the last two
LastTwo(q) == IF Len(q) <= 2 THEN q ELSE SubSeq(q, Len(q) - 1, Len(q))

-----------------------------------------------------------------------------
(* The sources: sensor.py and gps.py *)

RECURSIVE Decimal(_)
\* str(n) of a natural number
Decimal(n) == IF n < 10 THEN <<Digit(n)>> ELSE Decimal(n \div 10) \o <<Digit(n % 10)>>

\* datetime.now().isoformat(): "T" between date and time, then the fraction
StampIso(t) ==
    YearDigits \o <<"-">> \o Pad2(DateOf(t)[1]) \o <<"-">> \o Pad2(DateOf(t)[2])
        \o <<"T">> \o Pad2(HourOf(t)) \o <<":">> \o Pad2(MinuteOf(t))
        \o <<":">> \o Pad2(SecondOf(t)) \o <<".", Digit(t % SubSec)>>

\* what the BME680 does when the driver is constructed and configured, and
\* what it does when a reading is asked for
SensorInits == {"ok", "nolib", "notfound", "config_raises"}
SensorReads == {"data", "nodata", "raises"}

\* initialize_sensor(): whether it succeeded, and sensor.sensor afterwards; the
\* driver object is assigned before it is configured
initialize_sensor(sn, init) ==
    CASE init = "nolib" -> [ok |-> FALSE, sensor |-> sn]
      [] init = "notfound" -> [ok |-> FALSE, sensor |-> sn]
      [] init = "config_raises" -> [ok |-> FALSE, sensor |-> "object"]
      [] OTHER -> [ok |-> TRUE, sensor |-> "object"]

\* the dict read_sensor returns when it has no reading
SensorNone(t) ==
    [timestamp |-> StampIso(t), temperature |-> PyNone, humidity |-> PyNone,
     pressure |-> PyNone, gas |-> PyNone]

\* the dict read_sensor returns when sensor.get_sensor_data() is true
SensorData(t) ==
    [timestamp |-> StampIso(t), temperature |-> <<"21.0">>, humidity |-> <<"40.0">>,
     pressure |-> <<"1013.2">>, gas |-> <<"52000">>]

\* a try block without its except clause: the device's exception goes up
read_sensor_try_Uncaught(read, t) ==
    [data |-> IF read = "data" THEN SensorData(t) ELSE SensorNone(t),
     raised |-> read = "raises"]

\* the try block of read_sensor and its except clause: the dict returned, and
\* whether an exception leaves the function
read_sensor_try(read, t) ==
    [data |-> IF read = "data" THEN SensorData(t) ELSE SensorNone(t),
     raised |-> FALSE]

\* read_sensor without lines 81-89: a sensor that is None is not initialised
\* again and the call reports no data
read_sensor_NoRetry(sn, init, read, t) ==
    IF sn = "None"
    THEN [data |-> SensorNone(t), sensor |-> sn, raised |-> FALSE]
    ELSE [data |-> read_sensor_try(read, t).data, sensor |-> sn,
          raised |-> read_sensor_try(read, t).raised]

\* read_sensor(): the dict returned, sensor.sensor afterwards, and whether an
\* exception leaves the function
read_sensor(sn, init, read, t) ==
    IF sn = "None"
    THEN LET i == initialize_sensor(sn, init)
         IN  IF ~i.ok
             THEN [data |-> SensorNone(t), sensor |-> i.sensor, raised |-> FALSE]
             ELSE [data |-> read_sensor_try(read, t).data, sensor |-> i.sensor,
                   raised |-> read_sensor_try(read, t).raised]
    ELSE [data |-> read_sensor_try(read, t).data, sensor |-> sn,
          raised |-> read_sensor_try(read, t).raised]

\* a GGA sentence: fix quality, latitude and longitude as ddmm with their
\* hemispheres (0 for an empty field), altitude in metres (Blank when empty)
Sentence(q, la, lo, al) ==
    [gps_qual |-> q, lat |-> la, lat_dir |-> "N", lon |-> lo, lon_dir |-> "W",
     altitude |-> al]

\* what the serial port does when it is opened, and what a poll of 1.5 s reads
\* from it: nothing, a sentence, or an exception
PortOpens == {"ok", "busy"}
PortReads ==
    { [kind |-> "silent"], [kind |-> "busy"], [kind |-> "error"] } \cup
    { [kind |-> "line", msg |-> m] :
        m \in { Sentence(1, 3748, 12212, <<"10.0">>), Sentence(1, 3748, 12212, Blank),
                Sentence(1, 0, 0, Blank), Sentence(0, 0, 0, Blank) } }

\* init_gps(): whether it succeeded, and gps._ser afterwards
init_gps(open) ==
    IF open = "ok" THEN [ok |-> TRUE, _ser |-> "open"] ELSE [ok |-> FALSE, _ser |-> "None"]

\* _convert(value, direction): ddmm to decimal degrees, to one decimal place
_convert(value, direction) ==
    IF value = 0 THEN PyNone
    ELSE (IF direction \in {"S", "W"} THEN <<"-">> ELSE <<>>)
            \o Decimal(value \div 100) \o <<".", Digit((value % 100) \div 6)>>

\* Optional[Dict]: None, or a dict
NoDict == [none |-> TRUE, dict |-> [k \in {} |-> Blank]]
Some(d) == [none |-> FALSE, dict |-> d]

\* a parser that rejects a fix with an empty field
_parse_gpgga_AllOrNothing(msg, t) ==
    IF msg.gps_qual = 0 \/ msg.lat = 0 \/ msg.lon = 0 \/ msg.altitude = Blank THEN NoDict
    ELSE Some([timestamp |-> <<"utc ">> \o StampIso(t),
               latitude |-> _convert(msg.lat, msg.lat_dir),
               longitude |-> _convert(msg.lon, msg.lon_dir),
               altitude |-> msg.altitude])

\* _parse_gpgga(line): None for fix quality 0, else the fix with its own timestamp
\* (utcnow(): the same instant read in another zone, marked as such)
_parse_gpgga(msg, t) ==
    IF msg.gps_qual = 0 THEN NoDict
    ELSE Some([timestamp |-> <<"utc ">> \o StampIso(t),
               latitude |-> _convert(msg.lat, msg.lat_dir),
               longitude |-> _convert(msg.lon, msg.lon_dir),
               altitude |-> IF msg.altitude = Blank THEN PyNone ELSE msg.altitude])

\* an except clause that keeps the connection after "device busy"
read_data_try_KeepsPort(ser, read, t) ==
    CASE read.kind = "line" ->
           [data |-> _parse_gpgga(read.msg, t), _ser |-> ser, raised |-> FALSE]
      [] OTHER -> [data |-> NoDict, _ser |-> ser, raised |-> FALSE]

\* the try block of read_data and its except clauses: the fix or None,
\* gps._ser afterwards, and whether an exception leaves the function
read_data_try(ser, read, t) ==
    CASE read.kind = "line" ->
           [data |-> _parse_gpgga(read.msg, t), _ser |-> ser, raised |-> FALSE]
      [] read.kind = "busy" -> [data |-> NoDict, _ser |-> "None", raised |-> FALSE]
      [] OTHER -> [data |-> NoDict, _ser |-> ser, raised |-> FALSE]

\* gps.read_data(): the fix or None, gps._ser afterwards, and whether an
\* exception leaves the function
read_data(ser, open, read, t) ==
    IF ser = "None"
    THEN LET i == init_gps(open)
         IN  IF ~i.ok THEN [data |-> NoDict, _ser |-> i._ser, raised |-> FALSE]
             ELSE read_data_try(i._ser, read, t)
    ELSE read_data_try(ser, read, t)

-----------------------------------------------------------------------------
(* main.py: configuration, merge, fallback values and the history deques *)

\* seconds between samples, in units of 0.1 s
LOOP_DELAY == 10
\* the sleep that ends every iteration, in units of 0.1 s
DISPLAY_UPDATE_RATE == 1
\* maxlen of the history deques
HISTORY_LEN == 120

HistoryKeys == {"temperature", "humidity", "pressure"}
GpsKeys == {"latitude", "longitude", "altitude"}

\* time.time(), in units of 0.1 s (counted from 1 Jan rather than from 1970)
time_time(b, c) == (b \div SubSec) * LOOP_DELAY + c
\* datetime.now() at the same instant, in clock steps
datetime_now(b, c) == b + (c * SubSec) \div LOOP_DELAY

\* `read_gps() or DEFAULT`: a position is made up when there is no fix
OrEmpty_Default(o) ==
    IF o.none
    THEN [latitude |-> <<"0.0">>, longitude |-> <<"0.0">>, altitude |-> <<"0.0">>]
    ELSE o.dict

\* read_gps() or {}
OrEmpty(o) == IF o.none THEN NoData ELSE o.dict

\* merged.update(gps_data): every key of the fix is laid over the sensor's dict
Merge_Update(sensor_data, gps_data) ==
    [k \in DOMAIN sensor_data \cup DOMAIN gps_data \cup GpsKeys |->
        IF k \in DOMAIN gps_data THEN gps_data[k]
        ELSE IF k \in DOMAIN sensor_data THEN sensor_data[k]
        ELSE PyNone]

\* lines 84-90: the sensor's dict, the three GPS keys laid over it when the fix
\* has them, and None for those of the three that are still missing
Merge(sensor_data, gps_data) ==
    [k \in DOMAIN sensor_data \cup GpsKeys |->
        IF k \in GpsKeys /\ k \in DOMAIN gps_data THEN gps_data[k]
        ELSE IF k \in DOMAIN sensor_data THEN sensor_data[k]
        ELSE PyNone]

\* the three fallback expressions, kept symbolic: the index is their argument
Synthetic(k, base_t) ==
    CASE k = "temperature" -> <<"22.0+0.5*sin(">> \o Decimal(base_t) \o <<"/15)">>
      [] k = "humidity" -> <<"45.0+5*sin(">> \o Decimal(base_t) \o <<"/25)">>
      [] k = "pressure" -> <<"1013+2*sin(">> \o Decimal(base_t) \o <<"/40)">>

\* base_t = len(history['temperature'])
base_t(h) == Len(h["temperature"])

\* no fallback: the merged reading is stored as polled
_simulate_if_missing_Off(data, h) == data

\* a fallback that fills gas as well
_simulate_if_missing_WithGas(data, h) ==
    [k \in DOMAIN data \cup HistoryKeys \cup {"gas"} |->
        IF k \in HistoryKeys /\ Get(data, k) = PyNone THEN Synthetic(k, base_t(h))
        ELSE IF k = "gas" /\ Get(data, k) = PyNone THEN <<"50000">>
        ELSE data[k]]

\* _simulate_if_missing(data)
_simulate_if_missing(data, h) ==
    [k \in DOMAIN data \cup HistoryKeys |->
        IF k \in HistoryKeys /\ Get(data, k) = PyNone THEN Synthetic(k, base_t(h))
        ELSE data[k]]

\* a deque without maxlen
DequeAppend_Unbounded(q, v) == Append(q, v)

\* deque(maxlen=HISTORY_LEN).append(v)
DequeAppend(q, v) ==
    IF Len(q) < HISTORY_LEN THEN Append(q, v) ELSE Append(Tail(q), v)

\* lines 97-99: each history deque takes the merged value of its key
HistoryAppend(h, merged) ==
    [k \in HistoryKeys |->
        IF k \in DOMAIN merged THEN DequeAppend(h[k], merged[k]) ELSE h[k]]

\* lines 19-23: the deques at import
EmptyHistory == [k \in HistoryKeys |-> <<>>]

\* lines 61-68: cached_merged before the first sample
EmptyCache ==
    [k \in {"temperature", "humidity", "pressure", "gas"} \cup GpsKeys |-> PyNone]

\* the tests of lines 80 and 102 left out: every iteration samples and logs
Due_Always(t, last) == TRUE

\* lines 80 and 102: LOOP_DELAY has passed on the loop's clock since `last`
Due(t, last) == t - last >= LOOP_DELAY

\* a handler that leaves the flag alone
signal_handler_Ignored(r) == r

\* the clock read again after the write
stamp_log_time_Later(t) == t + DISPLAY_UPDATE_RATE

\* line 105: last_log_time = current_time
stamp_log_time(t) == t

\* signal_handler(sig, frame): running = False
signal_handler(r) == FALSE

\* while True
loop_condition_Always(r) == TRUE

\* the while condition of line 70
loop_condition(r) == r

\* a loop that honours the display's quit intent, as a windowed program would
handle_events_try_Quit(r, outcome) ==
    [running |-> r /\ outcome # "quit", raised |-> FALSE, caught |-> outcome = "raises"]

\* lines 73-77: the value handle_events returns is dropped, an exception printed
handle_events_try(r, outcome) ==
    [running |-> r, raised |-> FALSE, caught |-> outcome = "raises"]

\* render called outside any try block
render_try_Uncaught(outcome) == [raised |-> outcome = "raises", caught |-> FALSE]

\* lines 109-113: an exception of render is printed
render_try(outcome) == [raised |-> FALSE, caught |-> outcome = "raises"]

\* main() giving up when the session could not be started
after_init_log_ExitOnFailure(out) == IF out = "fail" THEN "exited" ELSE "top"

\* line 51: init_log() returns nothing and raises nothing, so main goes on
\* to the loop whatever became of the session file
after_init_log(out) == "top"

\* the history of a run of main(): sampling ticks, log_data calls and rows
\* appended so far; how init_log went at startup; the loop iterations begun;
\* whether a signal came, and how many iterations had begun by then; sampling ticks and log_data calls
\* since the signal; whether the last handle_events returned a quit intent;
\* whose exceptions were caught in the last step; of the last sampling tick, the two
\* fragments polled, the line the GPS read, the index given to the fallback,
\* and, until the reading is rendered, what the devices did when initialised,
\* read and opened ("skipped" when the module did not get that far); whether
\* an initialisation of the sensor has failed in this process
NoTrace ==
    [polls |-> 0, logs |-> 0, rows |-> 0, start |-> "none", iters |-> 0,
     signal |-> FALSE, sigIter |-> 0, sigPolls |-> 0, sigLogs |-> 0,
     quit |-> FALSE, caught |-> {},
     S |-> NoData, G |-> NoData, line |-> [kind |-> "silent"], index |-> 0,
     dev |-> [init |-> "skipped", read |-> "skipped", open |-> "skipped"],
     initFailed |-> FALSE]

-----------------------------------------------------------------------------
(* The writer on its own *)

\* lines 22-24: the globals at import; no session file of this run exists yet
Init ==
    /\ boot \in StartTimes
    /\ now = boot
    /\ LOG_FILE = PyNone
    /\ _initialized = FALSE
    /\ files = [f \in {} |-> <<>>]
    /\ sessions = <<>>
    /\ ret = Event("start", <<>>, FALSE, "none", FALSE, NoData)
    /\ pc = "idle"
    /\ running = TRUE
    /\ clock = 0
    /\ current_time = 0
    /\ last_log_time = 0
    /\ last_sensor_read = 0
    /\ history = EmptyHistory
    /\ cached_merged = EmptyCache
    /\ sensor = "None"
    /\ _ser = "None"
    /\ status = "alive"
    /\ trace = NoTrace

\* the wall clock advances
Tick ==
    /\ now - boot < MaxTicks
    /\ now' = now + 1
    /\ ret' = Event("tick", <<>>, FALSE, "none", FALSE, NoData)
    /\ UNCHANGED <<boot, LOG_FILE, _initialized, files, sessions, mainVars>>

\* a file is removed from outside between two calls
RemoveFile ==
    /\ \E f \in DOMAIN files : files' = Remove(files, f)
    /\ ret' = Event("rm", <<>>, FALSE, "none", FALSE, NoData)
    /\ UNCHANGED <<now, boot, LOG_FILE, _initialized, sessions, mainVars>>

\* the process calls init_log()
InitLog ==
    \E r \in init_log(Writer, now) :
        /\ LOG_FILE' = r.st.LOG_FILE
        /\ _initialized' = r.st._initialized
        /\ files' = r.st.files
        /\ sessions' = LastTwo(sessions \o Created(<<r.out>>, now))
        /\ ret' = Event("init_log", <<r.out>>, FALSE, "none", FALSE, NoData)
        /\ UNCHANGED <<now, boot, mainVars>>

\* the process calls log_data(data)
LogData ==
    /\ \A f \in DOMAIN files : Len(files[f]) < MaxRows
    /\ \E data \in Readings :
         \E r \in log_data(Writer, now, data) :
            /\ LOG_FILE' = r.st.LOG_FILE
            /\ _initialized' = r.st._initialized
            /\ files' = r.st.files
            /\ sessions' = LastTwo(sessions \o Created(r.inits, now))
            /\ ret' = Event("log_data", r.inits, r.removed, r.append, r.raised, data)
            /\ UNCHANGED <<now, boot, mainVars>>

Next == Tick \/ RemoveFile \/ InitLog \/ LogData

Spec == Init /\ [][Next]_vars

-----------------------------------------------------------------------------
(* The sampling loop of main.py, one action per step of main()             *)

\* bound: a run of the loop lasts this long, in units of 0.1 s
MaxClock == 10

\* the process start instant of the runs of main()
MainStarts == {s * SubSec : s \in {30 * 86400 + 86399}}

\* the module globals at import; sensor.py has tried initialize_sensor() once
InitMain ==
    /\ boot \in MainStarts
    /\ now = boot
    /\ LOG_FILE = PyNone
    /\ _initialized = FALSE
    /\ files = [f \in {} |-> <<>>]
    /\ sessions = <<>>
    /\ ret = Event("start", <<>>, FALSE, "none", FALSE, NoData)
    /\ pc = "start"
    /\ running = TRUE
    /\ clock = 0
    /\ current_time = 0
    /\ last_log_time = 0
    /\ last_sensor_read = 0
    /\ history = EmptyHistory
    /\ cached_merged = EmptyCache
    /\ \E i \in SensorInits :
          /\ sensor = initialize_sensor("None", i).sensor
          /\ trace = [NoTrace EXCEPT !.initFailed = ~initialize_sensor("None", i).ok]
    /\ _ser = "None"
    /\ status = "alive"

\* lines 46-68: the handlers are installed, init_log() is called, the loop's
\* locals are set
Start ==
    /\ pc = "start"
    /\ \E r \in init_log(Writer, now) :
        /\ LOG_FILE' = r.st.LOG_FILE
        /\ _initialized' = r.st._initialized
        /\ files' = r.st.files
        /\ sessions' = LastTwo(sessions \o Created(<<r.out>>, now))
        /\ ret' = Event("init_log", <<r.out>>, FALSE, "none", FALSE, NoData)
        /\ pc' = after_init_log(r.out)
        /\ status' = IF after_init_log(r.out) = "exited" THEN "exit1" ELSE status
        /\ trace' = [trace EXCEPT !.start = r.out]
    /\ last_log_time' = 0
    /\ last_sensor_read' = 0
    /\ cached_merged' = EmptyCache
    /\ UNCHANGED <<now, boot, running, clock, current_time, history, sensor, _ser>>

\* lines 70-71 and 117: the flag is tested; the clock is read, or main returns
LoopTop ==
    /\ pc = "top"
    /\ IF loop_condition(running)
       THEN /\ current_time' = time_time(boot, clock)
            /\ pc' = "events"
            /\ status' = status
            /\ trace' = [trace EXCEPT !.iters = @ + 1]
       ELSE /\ pc' = "exited"
            /\ status' = "exit0"
            /\ UNCHANGED <<current_time, trace>>
    /\ UNCHANGED <<logVars, running, clock, last_log_time, last_sensor_read,
                   history, cached_merged, sensor, _ser>>

\* lines 73-77: display.handle_events() returns its actions or raises
Events(outcomes) ==
    /\ pc = "events"
    /\ \E o \in outcomes :
        LET h == handle_events_try(running, o)
        IN  /\ running' = h.running
            /\ pc' = IF h.raised THEN "exited" ELSE "sample"
            /\ status' = IF h.raised THEN "exit1" ELSE status
            /\ trace' = [trace EXCEPT !.quit = (o = "quit"),
                                      !.caught = IF h.caught THEN {"events"} ELSE {}]
    /\ UNCHANGED <<logVars, clock, current_time, last_log_time, last_sensor_read,
                   history, cached_merged, sensor, _ser>>

\* a call of log_data in which the file system does nothing unusual: the
\* appends and session starts succeed and nobody removes the file meanwhile
Healthy(r) ==
    /\ r.append = "ok"
    /\ ~r.removed
    /\ \A i \in 1..Len(r.inits) : r.inits[i] = "ok"

\* the outcomes of log_data under the file system behaviours `io` admits
LogOutcomes(merged, io) ==
    IF io = "any" THEN log_data(Writer, now, merged)
    ELSE {r \in log_data(Writer, now, merged) : Healthy(r)}

\* whether the device raised an exception inside read_sensor: at construction
\* or configuration, or in the try block when that is reached
SensorRaises(sn, init, read) ==
    \/ sn = "None" /\ init \in {"notfound", "config_raises"}
    \/ (sn = "object" \/ initialize_sensor(sn, init).ok) /\ read = "raises"

\* whether the port raised an exception inside read_data: when opened, or in
\* the try block when that is reached
PortRaises(ser, open, read) ==
    \/ ser = "None" /\ open = "busy"
    \/ (ser = "open" \/ init_gps(open).ok) /\ read.kind \in {"busy", "error"}

\* what the devices were asked to do in a poll: "skipped" for an initialisation
\* that was not needed and for a read that was not reached
Devices(sn, ser, init, read, open) ==
    [init |-> IF sn = "None" THEN init ELSE "skipped",
     read |-> IF sn = "object" \/ initialize_sensor(sn, init).ok THEN read ELSE "skipped",
     open |-> IF ser = "None" THEN open ELSE "skipped"]

\* what read_data got from the port: nothing when the port could not be opened
PortLine(ser, open, read) ==
    IF ser = "open" \/ init_gps(open).ok THEN read ELSE [kind |-> "closed"]

\* the behaviours of a device at initialisation matter only when the module
\* has to initialise it
Consulted(needed, behaviours) ==
    IF needed THEN behaviours ELSE {CHOOSE b \in behaviours : TRUE}

\* lines 79-107: one sampling tick when LOOP_DELAY has passed since the last
\* one, else nothing.  The devices' behaviours and the file system's are the
\* inputs.
Sample(sInits, sReads, pOpens, pReads, io) ==
    /\ pc = "sample"
    /\ IF Due(current_time, last_sensor_read)
       THEN \E si \in Consulted(sensor = "None", sInits), sr \in sReads,
               po \in Consulted(_ser = "None", pOpens), pr \in pReads :
              LET s == read_sensor(sensor, si, sr, now)
                  g == read_data(_ser, po, pr, now)
                  \* read_sensor() or {}: read_sensor never returns None or {}
                  sensor_data == s.data
                  gps_data == OrEmpty(g.data)
                  \* lines 84-91
                  simulated == _simulate_if_missing(Merge(sensor_data, gps_data), history)
                  due == Due(current_time, last_log_time)
                  after == IF running THEN 0 ELSE 1
                  caught ==
                      (IF SensorRaises(sensor, si, sr) THEN {"sensor"} ELSE {})
                          \cup (IF PortRaises(_ser, po, pr) THEN {"gps"} ELSE {})
                  tr == [trace EXCEPT !.polls = @ + 1, !.sigPolls = @ + after,
                                      !.caught = caught,
                                      !.S = sensor_data, !.G = gps_data,
                                      !.line = PortLine(_ser, po, pr),
                                      !.index = base_t(history),
                                      !.dev = Devices(sensor, _ser, si, sr, po),
                                      !.initFailed =
                                          @ \/ (sensor = "None"
                                                   /\ ~initialize_sensor(sensor, si).ok)]
              IN \E merged \in {simulated} :
                  /\ sensor' = s.sensor
                  /\ _ser' = g._ser
                  /\ IF s.raised \/ g.raised
                     THEN \* an exception of line 81 or 82 leaves main()
                          /\ pc' = "exited"
                          /\ status' = "exit1"
                          /\ trace' = tr
                          /\ ret' = Event("poll", <<>>, FALSE, "none", TRUE, NoData)
                          /\ UNCHANGED <<LOG_FILE, _initialized, files, sessions,
                                         last_log_time, last_sensor_read, history,
                                         cached_merged>>
                     ELSE \* lines 84-107
                          /\ cached_merged' = merged
                          /\ history' = HistoryAppend(history, merged)
                          /\ last_sensor_read' = current_time
                          /\ IF due
                             THEN \E r \in LogOutcomes(merged, io) :
                                    /\ LOG_FILE' = r.st.LOG_FILE
                                    /\ _initialized' = r.st._initialized
                                    /\ files' = r.st.files
                                    /\ sessions' = LastTwo(sessions \o Created(r.inits, now))
                                    /\ ret' = Event("log_data", r.inits, r.removed, r.append,
                                                    r.raised, merged)
                                    /\ last_log_time' = stamp_log_time(current_time)
                                    /\ pc' = IF r.raised THEN "exited" ELSE "render"
                                    /\ status' = IF r.raised THEN "exit1" ELSE status
                                    /\ trace' = [tr EXCEPT !.logs = @ + 1, !.sigLogs = @ + after,
                                                    !.rows = @ + (IF r.append = "ok" THEN 1 ELSE 0)]
                             ELSE /\ pc' = "render"
                                  /\ trace' = tr
                                  /\ ret' = Event("poll", <<>>, FALSE, "none", FALSE, NoData)
                                  /\ UNCHANGED <<LOG_FILE, _initialized, files, sessions,
                                                 last_log_time, status>>
       ELSE /\ pc' = "render"
            /\ trace' = [trace EXCEPT !.caught = {}]
            /\ ret' = Event("skip", <<>>, FALSE, "none", FALSE, NoData)
            /\ UNCHANGED <<LOG_FILE, _initialized, files, sessions, last_log_time,
                           last_sensor_read, history, cached_merged, sensor, _ser,
                           status>>
    /\ UNCHANGED <<now, boot, running, clock, current_time>>

\* lines 109-113: display.render(...) returns or raises
Render(outcomes) ==
    /\ pc = "render"
    /\ \E o \in outcomes :
        LET h == render_try(o)
        IN  /\ pc' = IF h.raised THEN "exited" ELSE "sleep"
            /\ status' = IF h.raised THEN "exit1" ELSE status
            /\ trace' = [trace EXCEPT !.caught = IF h.caught THEN {"render"} ELSE {},
                                      !.dev = NoTrace.dev]
    /\ UNCHANGED <<logVars, running, clock, current_time, last_log_time,
                   last_sensor_read, history, cached_merged, sensor, _ser>>

\* line 115: time.sleep(DISPLAY_UPDATE_RATE); `lag` is the time the rest of the
\* iteration took.  A run is followed up to the horizon, and to the end of the
\* iteration in which the flag was cleared.
Sleep(lags, horizon) ==
    /\ pc = "sleep"
    /\ \E lag \in lags :
        /\ \/ clock + DISPLAY_UPDATE_RATE + lag <= horizon
           \/ ~running /\ clock <= horizon
        /\ clock' = clock + DISPLAY_UPDATE_RATE + lag
        /\ now' = datetime_now(boot, clock + DISPLAY_UPDATE_RATE + lag)
    /\ pc' = "top"
    /\ ret' = Event("sleep", <<>>, FALSE, "none", FALSE, NoData)
    /\ trace' = [trace EXCEPT !.caught = {}]
    /\ UNCHANGED <<boot, LOG_FILE, _initialized, files, sessions, running,
                   current_time, last_log_time, last_sensor_read, history,
                   cached_merged, sensor, _ser, status>>

\* SIGINT or SIGTERM is delivered: signal_handler runs between two steps
Signal ==
    /\ pc \notin {"idle", "exited"}
    /\ running
    /\ running' = signal_handler(running)
    /\ trace' = [trace EXCEPT !.signal = TRUE, !.sigIter = trace.iters]
    /\ UNCHANGED <<logVars, pc, clock, current_time, last_log_time, last_sensor_read,
                   history, cached_merged, sensor, _ser, status>>

DisplayEvents == {"none", "quit", "raises"}
RenderOutcomes == {"ok", "raises"}
\* an iteration takes half a LOOP_DELAY, or a whole one
Lags == {LOOP_DELAY \div 2 - DISPLAY_UPDATE_RATE, LOOP_DELAY - DISPLAY_UPDATE_RATE}

NextMain ==
    \/ Start
    \/ LoopTop
    \/ Events(DisplayEvents)
    \/ Sample(SensorInits, SensorReads, PortOpens, PortReads, "healthy")
    \/ Render(RenderOutcomes)
    \/ Sleep(Lags, MaxClock)
    \/ Signal

SpecMain == InitMain /\ [][NextMain]_vars

\* the steps of main() with a sensor that answers or raises and a GPS that
\* has a fix or is silent
LoopStep ==
    \/ Start
    \/ LoopTop
    \/ Events(DisplayEvents)
    \/ Sample({"ok"}, {"data", "raises"}, {"ok"},
              {[kind |-> "silent"], [kind |-> "line", msg |-> Sentence(1, 3748, 12212, Blank)]},
              "healthy")
    \/ Render(RenderOutcomes)
    \/ Sleep(Lags, MaxClock)

NextFair == LoopStep \/ Signal

\* every step of main() returns, so the process keeps taking steps
SpecMainFair == InitMain /\ [][NextFair]_vars /\ WF_vars(LoopStep)

-----------------------------------------------------------------------------
(* Vocabulary of the properties *)

Last(q) == q[Len(q)]

\* the writer has no usable session file
NotReady == LOG_FILE = PyNone \/ ~Exists(files, LOG_FILE)

IsHeader(row) == row[1] = <<"timestamp">>
IsMarker(row) == Len(row[1]) > 0 /\ row[1][1] = "# New session "
IsDataRow(row) == ~IsHeader(row) /\ ~IsMarker(row)

\* every data row of new was already in old, in the same file at the same place
NoNewDataRow(old, new) ==
    \A f \in DOMAIN new : \A i \in 1..Len(new[f]) :
        IsDataRow(new[f][i]) =>
            /\ Exists(old, f)
            /\ i <= Len(old[f])
            /\ old[f][i] = new[f][i]

\* the last call was a log_data that appended a row
Appended == ret.op = "log_data" /\ ret.append = "ok"

-----------------------------------------------------------------------------
(* C1 *)

\* C1 as stated: a log_data call that finds the writer not ready calls init_log
\* first; if the re-initialisation succeeds the record of this call is the last
\* row of the new session file, and if it fails the call returns without
\* raising and without writing a data row.
C1_AsStated ==
    [][(ret'.op = "log_data" /\ NotReady) =>
        /\ ret'.inits # <<>>
        /\ Last(ret'.inits) = "ok" =>
              /\ ret'.append = "ok"
              /\ Exists(files', LOG_FILE')
              /\ Last(files'[LOG_FILE']) = Row(ret'.data, now)
        /\ Last(ret'.inits) = "fail" =>
              /\ ~ret'.raised
              /\ ret'.append = "none"
              /\ NoNewDataRow(files, files')]_vars

\* C1 (amended): a log_data call that finds the writer not ready calls init_log
\* first; if the re-initialisation succeeds the call goes on to append the
\* record to the new session file, and the record is that file's last row
\* unless the append itself fails with an I/O error, in which case it is
\* dropped without raising; if the re-initialisation fails the call returns
\* without raising and without writing a data row.
C1_ReinitThenAppend ==
    [][(ret'.op = "log_data" /\ NotReady) =>
        /\ ret'.inits # <<>>
        /\ ~ret'.raised
        /\ Last(ret'.inits) = "ok" =>
              /\ ret'.append # "none"
              /\ LOG_FILE' = generate_log_filename(now)
              /\ ret'.append = "ok" =>
                    /\ Exists(files', LOG_FILE')
                    /\ Last(files'[LOG_FILE']) = Row(ret'.data, now)
              /\ ret'.append = "fail" => NoNewDataRow(files, files')
        /\ Last(ret'.inits) = "fail" =>
              /\ ret'.append = "none"
              /\ LOG_FILE' = PyNone
              /\ NoNewDataRow(files, files')]_vars

\* a log_data call re-initialised the writer and appended its record
C1_Witness ==
    /\ Appended
    /\ ret.inits # <<>>
    /\ Last(ret.inits) = "ok"
    /\ Len(files[LOG_FILE]) = 3

-----------------------------------------------------------------------------
(* C2 *)

\* every row on disk has the eight cells of FIELD_NAMES; a header names them
\* in order and a marker has seven blank cells after the first
EightCells ==
    \A f \in DOMAIN files : \A i \in 1..Len(files[f]) :
        LET row == files[f][i]
        IN  /\ Len(row) = Len(FIELD_NAMES)
            /\ Len(FIELD_NAMES) = 8
            /\ IsHeader(row) => \A k \in 1..8 : row[k] = <<FIELD_NAMES[k]>>
            /\ IsMarker(row) => \A k \in 2..8 : row[k] = Blank

\* C2 as stated: every row on disk has exactly the eight fields in the fixed
\* order, and in an appended row every field that is None or missing in the
\* input is the empty string, the others holding the input's value.
C2_AsStated ==
    /\ EightCells
    /\ Appended =>
          \A k \in 1..8 :
              Last(files[LOG_FILE])[k] =
                  IF Get(ret.data, FIELD_NAMES[k]) = PyNone
                  THEN Blank
                  ELSE ret.data[FIELD_NAMES[k]]

\* C2 (amended): every row on disk has exactly the eight fields in the fixed
\* order; in an appended row every field other than timestamp that is None or
\* missing in the input is the empty string, a None or missing timestamp is
\* written as the current time, the other fields hold the input's value, and
\* input keys outside the eight are not written.
C2_EightFieldsInOrder ==
    /\ EightCells
    /\ Appended =>
          \A k \in 1..8 :
              Last(files[LOG_FILE])[k] =
                  IF Get(ret.data, FIELD_NAMES[k]) # PyNone
                  THEN ret.data[FIELD_NAMES[k]]
                  ELSE IF FIELD_NAMES[k] = "timestamp"
                       THEN StampHuman(now)
                       ELSE Blank

\* a row was appended from a dict with None values, missing keys and a key
\* outside the eight
C2_Witness ==
    /\ Appended
    /\ "heat_stable" \in DOMAIN ret.data
    /\ ret.data["gas"] = PyNone
    /\ "humidity" \notin DOMAIN ret.data

-----------------------------------------------------------------------------
(* C3 *)

\* C3 as stated: in every file on disk the header is row 1, the marker row 2
\* and data rows come from row 3 on: no data row is ever in a file that lacks
\* the header and the marker (a file left incomplete by a failed init_log
\* holds no data row and is not counted against the claim).
C3_AsStated ==
    \A f \in DOMAIN files : \A i \in 1..Len(files[f]) :
        /\ IsHeader(files[f][i]) => i = 1
        /\ IsMarker(files[f][i]) => i = 2
        /\ IsDataRow(files[f][i]) =>
              /\ i >= 3
              /\ IsHeader(files[f][1])
              /\ IsMarker(files[f][2])

-----------------------------------------------------------------------------
(* C4 *)

IsPrefix(a, b) == Len(a) <= Len(b) /\ SubSeq(b, 1, Len(a)) = a

\* the last step was a call of the writer
IsCall(e) == e.op \in {"init_log", "log_data"}

\* C4 as stated: no init_log or log_data call removes or alters a row already
\* written: every file keeps its rows as a prefix of its contents after the
\* call (unless somebody else removed the file during the call).
C4_AsStated ==
    [][(IsCall(ret') /\ ~ret'.removed) =>
        \A f \in DOMAIN files :
            Exists(files', f) /\ IsPrefix(files[f], files'[f])]_vars

-----------------------------------------------------------------------------
(* C5 *)

\* C5: init_log called when the writer is initialised and its session file
\* exists changes nothing: LOG_FILE, _initialized and every file are as before
\* and no session is created.
C5_InitLogNoOp ==
    [][(ret'.op = "init_log" /\ _initialized /\ LOG_FILE # PyNone
            /\ Exists(files, LOG_FILE)) =>
        /\ ret'.inits = <<"already">>
        /\ LOG_FILE' = LOG_FILE
        /\ _initialized' = _initialized
        /\ files' = files
        /\ sessions' = sessions]_vars

\* init_log returned early on a session that already holds a data row
C5_Witness ==
    /\ ret.op = "init_log"
    /\ ret.inits = <<"already">>
    /\ Len(files[LOG_FILE]) >= 3

-----------------------------------------------------------------------------
(* C6 *)

-----------------------------------------------------------------------------
(* C7 *)

\* C7 as stated: two sessions created at times t1 < t2 have distinct
\* filenames, the earlier sorting before the later.
C7_AsStated ==
    (Len(sessions) = 2 /\ sessions[1].t < sessions[2].t) =>
        /\ sessions[1].name # sessions[2].name
        /\ LexLess(sessions[1].name, sessions[2].name)

-----------------------------------------------------------------------------
(* C8 *)

\* C8: when init_log fails, in a call of its own or within log_data, no
\* exception reaches the caller and the writer is left not ready (LOG_FILE is
\* None and _initialized is False); and a call that finds LOG_FILE None
\* attempts a new session.
C8_FailedInitNotReady ==
    /\ [](IsCall(ret) /\ ret.inits # <<>> /\ Last(ret.inits) = "fail" =>
            /\ ~ret.raised
            /\ LOG_FILE = PyNone
            /\ ~_initialized)
    /\ [][(IsCall(ret') /\ LOG_FILE = PyNone) =>
            /\ ret'.inits # <<>>
            /\ ret'.inits[1] \in {"ok", "fail"}]_vars

\* init_log failed after it had opened the session file
C8_Witness ==
    /\ ret.op = "init_log"
    /\ ret.inits = <<"fail">>
    /\ Exists(files, generate_log_filename(now))

-----------------------------------------------------------------------------
(* C9 *)

\* C9: an I/O error while appending is not raised to the caller and leaves
\* LOG_FILE and _initialized as they were when the append began; the next
\* log_data call, finding the file still there, initialises nothing and
\* appends to the same session file.
C9_AppendErrorKeepsSession ==
    [][/\ (ret'.op = "log_data" /\ ret'.append = "fail") =>
            /\ ~ret'.raised
            /\ LOG_FILE' =
                  IF ret'.inits = <<>> THEN LOG_FILE ELSE generate_log_filename(now)
            /\ _initialized' = IF ret'.inits = <<>> THEN _initialized ELSE TRUE
       /\ (ret.op = "log_data" /\ ret.append = "fail" /\ ret'.op = "log_data"
                /\ ~NotReady /\ ~ret'.removed) =>
            /\ ret'.inits = <<>>
            /\ LOG_FILE' = LOG_FILE
            /\ ret'.append = "ok" =>
                  files'[LOG_FILE] = Append(files[LOG_FILE], Row(ret'.data, now))]_vars

\* an append failed on a session that holds an earlier data row
C9_Witness ==
    /\ ret.op = "log_data"
    /\ ret.append = "fail"
    /\ LOG_FILE # PyNone
    /\ Exists(files, LOG_FILE)
    /\ Len(files[LOG_FILE]) >= 3

-----------------------------------------------------------------------------
(* C10 *)

\* C10 as stated: after an I/O failure of the append a fresh session is begun
\* and the record is lost only if that fails too: either the record is the
\* last row of the session file or the writer is left without a session.
C10_AsStated ==
    (ret.op = "log_data" /\ ret.append = "fail") =>
        \/ LOG_FILE = PyNone
        \/ /\ Exists(files, LOG_FILE)
           /\ Len(files[LOG_FILE]) > 0
           /\ Last(files[LOG_FILE]) = Row(ret.data, now)

\* C10 (amended): an I/O failure of the append begins no session: the record
\* of that call is lost (no data row is written), and when the call found the
\* session file in place it makes no init_log call and leaves LOG_FILE and
\* every file as they were.
C10_AppendFailureLosesRecord ==
    [][(ret'.op = "log_data" /\ ret'.append = "fail") =>
        /\ NoNewDataRow(files, files')
        /\ sessions' = sessions \/ ret'.inits # <<>>
        /\ (~NotReady /\ ~ret'.removed) =>
              /\ ret'.inits = <<>>
              /\ LOG_FILE' = LOG_FILE
              /\ files' = files]_vars

\* an append failed in a call that found the session file in place
C10_Witness ==
    /\ ret.op = "log_data"
    /\ ret.append = "fail"
    /\ ret.inits = <<>>
    /\ ~ret.removed
    /\ ~NotReady

-----------------------------------------------------------------------------
(* A steady run: ten iterations a second, the sensor answering, no fix, a   *)
(* healthy file system, no signal                                          *)

\* bound: the length of the steady run, in seconds
RunSeconds == 10

NextSteady ==
    \/ Start
    \/ LoopTop
    \/ Events({"none", "quit"})
    \/ Sample({"ok"}, {"data"}, {"ok"}, {[kind |-> "silent"]}, "healthy")
    \/ Render(RenderOutcomes)
    \/ Sleep({0}, RunSeconds * LOOP_DELAY)

SpecSteady == InitMain /\ [][NextSteady]_vars

-----------------------------------------------------------------------------
(* A long run without hardware: a sampling tick every second iteration, no  *)
(* sensor, no GPS port, a healthy file system, no signal                    *)

\* the sampling ticks of the long run: enough to fill the history deques and
\* to go two ticks beyond
LongRun == HISTORY_LEN + 2

NextLong ==
    \/ Start
    \/ LoopTop
    \/ Events({"none"})
    \/ Sample({"notfound"}, {"nodata"}, {"busy"}, {[kind |-> "silent"]}, "healthy")
    \/ Render({"ok"})
    \/ Sleep({LOOP_DELAY \div 2 - DISPLAY_UPDATE_RATE}, (LongRun - 1) * LOOP_DELAY)

SpecLong == InitMain /\ [][NextLong]_vars

-----------------------------------------------------------------------------
(* Three ticks: a reading and a fix, a reading without a fix, neither       *)

\* the sampling ticks of the scenario
ScenarioTicks == 3

\* a GGA sentence with a fix and an altitude
FullFix == [kind |-> "line", msg |-> Sentence(1, 3748, 12212, <<"10.0">>)]

\* what a poll without a fix reads: nothing, or a sentence of quality 0
NoFix == {[kind |-> "silent"], [kind |-> "line", msg |-> Sentence(0, 0, 0, Blank)]}

\* the sampling branch, with the devices behaving as the tick's number says
ScenarioSample ==
    \/ /\ trace.polls = 0
       /\ Sample({"ok"}, {"data"}, {"ok"}, {FullFix}, "healthy")
    \/ /\ trace.polls = 1
       /\ Sample({"ok"}, {"data"}, {"ok"}, NoFix, "healthy")
    \/ /\ trace.polls >= 2
       /\ Sample({"ok"}, {"nodata", "raises"}, {"ok"}, NoFix \cup {[kind |-> "busy"]},
                 "healthy")

NextScenario ==
    \/ Start
    \/ LoopTop
    \/ Events(DisplayEvents)
    \/ ScenarioSample
    \/ Render(RenderOutcomes)
    \/ Sleep(Lags, (ScenarioTicks - 1) * LOOP_DELAY)

SpecScenario == InitMain /\ [][NextScenario]_vars

-----------------------------------------------------------------------------

(* Claims about the sampling loop, checked under SpecMain unless said otherwise *)

\* C11 as the specification states it: when init_log fails at startup the
\* process exits with a non-zero status without entering the loop, polling a
\* source or calling log_data.
C11_AsStated ==
    trace.start = "fail" =>
        /\ pc = "exited"
        /\ status = "exit1"
        /\ trace.polls = 0
        /\ trace.logs = 0

\* C11: whatever init_log does at startup, main() goes on to the loop and the
\* process stays alive; after a failure the writer is left not ready, and the
\* first log_data call of the loop begins by calling init_log again.
C11_FailedStartEntersLoop ==
    [][ /\ (pc = "start" /\ pc' # "start") =>
              /\ pc' = "top"
              /\ status' = "alive"
              /\ (trace'.start = "fail" => LOG_FILE' = PyNone /\ ~_initialized')
        /\ (trace.start = "fail" /\ trace.logs = 0 /\ trace'.logs = 1) =>
              /\ ret'.op = "log_data"
              /\ ret'.inits # <<>>
              /\ trace'.polls = 1
              /\ status' = "alive" ]_vars

\* init_log failed at startup, and the first sampling tick started the session
\* and appended its row
C11_Witness ==
    /\ trace.start = "fail"
    /\ trace.polls = 1
    /\ ret.op = "log_data"
    /\ ret.inits = <<"ok">>
    /\ ret.append = "ok"
    /\ status = "alive"

\* C12 (under SpecSteady): log_data is called only when LOOP_DELAY has passed
\* on the loop's clock since the call before it, one call at a time; so at ten
\* iterations a second the rows appended are within one of the seconds the
\* run has lasted, at every instant of it and at its end.
C12_OneRowPerLoopDelay ==
    /\ [](/\ trace.rows * LOOP_DELAY <= clock + LOOP_DELAY
          /\ clock <= (trace.rows + 1) * LOOP_DELAY
          /\ (clock = RunSeconds * LOOP_DELAY =>
                 trace.rows \in (RunSeconds - 1)..(RunSeconds + 1)))
    /\ [][trace'.logs # trace.logs =>
              /\ trace'.logs = trace.logs + 1
              /\ current_time - last_log_time >= LOOP_DELAY
              /\ last_log_time' = current_time]_vars

\* the hundredth iteration of a steady run ends with ten rows appended
C12_Witness ==
    /\ trace.iters = RunSeconds * LOOP_DELAY
    /\ pc = "sleep"
    /\ trace.rows = RunSeconds
    /\ trace.logs = RunSeconds

\* C13: a quit intent returned by display.handle_events changes nothing: the
\* flag `running` keeps its value through every step of the loop and the
\* iteration goes on to its sampling step; the flag is cleared only by the
\* signal handler, between two steps, and the loop is left only at its top
\* with the flag cleared.
C13_QuitIntentIgnored ==
    [][ /\ pc' # pc => running' = running
        /\ (pc = "events" /\ pc' # pc /\ trace'.quit) =>
              /\ pc' = "sample"
              /\ status' = "alive"
        /\ (running /\ ~running') =>
              UNCHANGED <<logVars, pc, clock, current_time, last_log_time,
                          last_sensor_read, history, cached_merged, status>>
        /\ (pc # "exited" /\ pc' = "exited") =>
              /\ pc = "top"
              /\ ~running
              /\ status' = "exit0" ]_vars

\* a quit intent was returned in the first iteration; the loop sampled, logged,
\* and began its second iteration with the flag still set
C13_Witness ==
    /\ trace.quit
    /\ trace.iters = 2
    /\ pc = "events"
    /\ running
    /\ trace.rows >= 1

\* C14 (under SpecMainFair, where every step of the loop returns): once SIGINT
\* or SIGTERM has been delivered, the loop eventually exits.
C14_SignalStopsLoop == trace.signal ~> (pc = "exited")

\* the loop sampled, a signal came, and main() returned
C14_Witness ==
    /\ trace.signal
    /\ trace.polls >= 1
    /\ pc = "exited"
    /\ status = "exit0"

\* the step that follows each step of an iteration
NextPc(p) ==
    CASE p = "events" -> "sample"
      [] p = "sample" -> "render"
      [] p = "render" -> "sleep"
      [] p = "sleep" -> "top"
      [] OTHER -> p

\* C15: the flag is read at the top of an iteration only.  Once the signal has
\* come no further iteration begins; the iteration in flight takes its
\* remaining steps in order, which is at most one more sampling tick and one
\* more log_data call; and once main() has returned nothing is polled or
\* written.
C15_FlagReadAtTopOnly ==
    /\ [](/\ ~running => trace.iters = trace.sigIter
          /\ trace.sigPolls <= 1
          /\ trace.sigLogs <= 1)
    /\ [][ /\ (~running /\ pc \in {"events", "sample", "render", "sleep"} /\ pc' # pc)
                  => pc' = NextPc(pc)
           /\ pc = "exited" =>
                  /\ pc' = "exited"
                  /\ trace'.polls = trace.polls
                  /\ trace'.logs = trace.logs
                  /\ files' = files ]_vars

\* the signal came in the second iteration before its sampling step; the
\* iteration sampled and logged once more, and main() returned
C15_Witness ==
    /\ trace.sigIter = 2
    /\ trace.sigPolls = 1
    /\ trace.sigLogs = 1
    /\ trace.rows = 2
    /\ pc = "exited"

\* C16: an exception raised while the display's events are handled, the
\* sources are polled or the reading is rendered is caught in that step: the
\* step ends as it does without the exception, the tick is completed, and no
\* exception leaves main().
C16_ExceptionsStayInTick ==
    /\ [](status # "exit1")
    /\ [][ (pc' # pc /\ trace'.caught # {}) =>
              /\ pc \in {"events", "sample", "render"}
              /\ pc' = NextPc(pc)
              /\ status' = "alive"
              /\ (pc = "sample" =>
                     /\ trace'.polls = trace.polls + 1
                     /\ cached_merged' = ret'.data) ]_vars

\* second sampling tick: both sources raised, and the tick was logged
C16_Witness ==
    /\ trace.caught = {"sensor", "gps"}
    /\ trace.polls = 2
    /\ ret.op = "log_data"
    /\ ret.append = "ok"
    /\ pc = "render"
    /\ status = "alive"

\* the cell of column k in the last row of the session file
LoggedCell(k) ==
    Last(Contents(files, LOG_FILE))[CHOOSE i \in 1..Len(FIELD_NAMES) : FIELD_NAMES[i] = k]

\* the last step was a sampling tick whose reading was appended to the file
TickLogged == pc = "render" /\ Appended

\* C17: after a sampling tick the merged reading has latitude, longitude and
\* altitude as the GPS fragment has them (None where it has none), its gas and
\* its timestamp as the sensor fragment has them, and the temperature,
\* humidity and pressure the sensor fragment has when it has them; it has no
\* other key, so nothing else of the GPS fragment is in it.
C17_MergeOverlaysPositionOnly ==
    trace.polls >= 1 =>
        /\ DOMAIN cached_merged = DOMAIN trace.S \cup GpsKeys
        /\ \A k \in GpsKeys :
              cached_merged[k] = (IF k \in DOMAIN trace.G THEN trace.G[k] ELSE PyNone)
        /\ \A k \in DOMAIN trace.S \ HistoryKeys : cached_merged[k] = trace.S[k]
        /\ \A k \in HistoryKeys :
              trace.S[k] # PyNone => cached_merged[k] = trace.S[k]

\* a tick with a sensor reading and a full fix: position from the fix,
\* everything else, the timestamp too, from the sensor
C17_Witness ==
    /\ TickLogged
    /\ trace.S["temperature"] = <<"21.0">>
    /\ "timestamp" \in DOMAIN trace.G
    /\ trace.G["timestamp"] # trace.S["timestamp"]
    /\ cached_merged["timestamp"] = trace.S["timestamp"]
    /\ cached_merged["latitude"] = <<"3", "7", ".", "8">>
    /\ cached_merged["longitude"] = <<"-", "1", "2", "2", ".", "2">>
    /\ cached_merged["altitude"] = <<"10.0">>
    /\ cached_merged["humidity"] = <<"40.0">>

\* C18 as the specification states it: in every merged reading and every
\* logged row, latitude, longitude and altitude are all present or all absent.
C18_AsStated ==
    /\ trace.polls >= 1 =>
          \/ \A k \in GpsKeys : cached_merged[k] = PyNone
          \/ \A k \in GpsKeys : cached_merged[k] # PyNone
    /\ TickLogged =>
          \/ \A k \in GpsKeys : LoggedCell(k) = Blank
          \/ \A k \in GpsKeys : LoggedCell(k) # Blank

\* C18: the merged reading always has the three position keys.  When the poll
\* got no fix all three are None and their cells are empty; when it got a fix,
\* each of the three is None exactly when the sentence left its field empty,
\* so the altitude can be absent while latitude and longitude are present.
C18_PositionFieldsFollowTheFix ==
    trace.polls >= 1 =>
        /\ GpsKeys \subseteq DOMAIN cached_merged
        /\ IF trace.line.kind = "line" /\ trace.line.msg.gps_qual # 0
           THEN /\ cached_merged["latitude"] = PyNone <=> trace.line.msg.lat = 0
                /\ cached_merged["longitude"] = PyNone <=> trace.line.msg.lon = 0
                /\ cached_merged["altitude"] = PyNone <=> trace.line.msg.altitude = Blank
           ELSE \A k \in GpsKeys : cached_merged[k] = PyNone
        /\ TickLogged =>
              \A k \in GpsKeys : LoggedCell(k) = Blank <=> cached_merged[k] = PyNone

\* a fix without altitude was logged: latitude and longitude cells filled,
\* altitude cell empty
C18_Witness ==
    /\ TickLogged
    /\ trace.line.kind = "line"
    /\ cached_merged["latitude"] = <<"3", "7", ".", "8">>
    /\ cached_merged["altitude"] = PyNone
    /\ LoggedCell("latitude") # Blank
    /\ LoggedCell("longitude") # Blank
    /\ LoggedCell("altitude") = Blank

\* C19 as the specification states it: after the merge every sensor field,
\* gas included, has a value, and so has its cell in the logged row.
C19_AsStated ==
    /\ trace.polls >= 1 =>
          \A k \in HistoryKeys \cup {"gas"} : cached_merged[k] # PyNone
    /\ TickLogged =>
          \A k \in HistoryKeys \cup {"gas"} : LoggedCell(k) # Blank

\* C19: after the merge, temperature, humidity and pressure have the sensor's
\* value or, when the sensor has none, the fallback value for the index of
\* this tick; gas is what the sensor gave, so a tick with no sensor data is
\* logged with temperature, humidity and pressure filled and gas empty.
C19_FallbackForThreeFields ==
    /\ trace.polls >= 1 =>
          /\ \A k \in HistoryKeys :
                cached_merged[k] =
                    (IF trace.S[k] = PyNone THEN Synthetic(k, trace.index)
                     ELSE trace.S[k])
          /\ cached_merged["gas"] = trace.S["gas"]
    /\ TickLogged =>
          /\ \A k \in HistoryKeys : LoggedCell(k) = cached_merged[k]
          /\ LoggedCell("gas") = Blank <=> trace.S["gas"] = PyNone

\* a tick without sensor data was logged: three synthetic cells, gas empty
C19_Witness ==
    /\ TickLogged
    /\ \A k \in HistoryKeys : trace.S[k] = PyNone
    /\ cached_merged["temperature"] = <<"22.0+0.5*sin(", "1", "/15)">>
    /\ LoggedCell("temperature") = <<"22.0+0.5*sin(", "1", "/15)">>
    /\ LoggedCell("gas") = Blank

\* C20 as the specification states it (under SpecLong): the index given to the
\* fallback on the n-th sampling tick is the number of ticks before it, so it
\* goes up by one with every tick of the run, and the synthetic value is the
\* fallback's value at that index.
C20_AsStated ==
    trace.polls >= 1 =>
        /\ trace.index = trace.polls - 1
        /\ trace.S["temperature"] = PyNone =>
              cached_merged["temperature"] = Synthetic("temperature", trace.polls - 1)

\* C21 as the specification states it: the timestamp of a logged reading is
\* not the one carried in the sensor fragment nor the one of the GPS fragment.
C21_AsStated ==
    TickLogged =>
        /\ LoggedCell("timestamp") # trace.S["timestamp"]
        /\ "timestamp" \in DOMAIN trace.G =>
              LoggedCell("timestamp") # trace.G["timestamp"]

\* C21: the timestamp of a reading logged by main.py is the one read_sensor
\* put into the sensor fragment, carried through the merge; it is not the GPS
\* fragment's, and the writer, which stamps only a dict that has no
\* timestamp, does not replace it.
C21_TimestampIsTheSensors ==
    /\ trace.polls >= 1 => cached_merged["timestamp"] = trace.S["timestamp"]
    /\ TickLogged =>
          /\ LoggedCell("timestamp") = trace.S["timestamp"]
          /\ LoggedCell("timestamp") # StampHuman(now)
          /\ "timestamp" \in DOMAIN trace.G =>
                LoggedCell("timestamp") # trace.G["timestamp"]

\* a tick with a fix and without sensor data is logged under the timestamp of
\* the sensor fragment
C21_Witness ==
    /\ TickLogged
    /\ "timestamp" \in DOMAIN trace.G
    /\ trace.S["temperature"] = PyNone
    /\ LoggedCell("timestamp") = StampIso(now)
    /\ LoggedCell("timestamp") = trace.S["timestamp"]


\* the last n elements of a sequence, in order
LastN(q, n) == IF Len(q) <= n THEN q ELSE SubSeq(q, Len(q) - n + 1, Len(q))

\* a step of the loop that polls the sources
SamplingStep == trace'.polls = trace.polls + 1

\* C22: every history buffer holds at most HISTORY_LEN entries; an append
\* puts the new value last and, on a full buffer, drops exactly the oldest
\* entry, so the buffer is the last HISTORY_LEN appended values, oldest first.
C22_BoundedFifoHistory ==
    /\ [](\A k \in HistoryKeys : Len(history[k]) <= HISTORY_LEN)
    /\ [][SamplingStep =>
            \A k \in HistoryKeys :
                /\ history'[k] =
                      LastN(Append(history[k], cached_merged'[k]), HISTORY_LEN)
                /\ Len(history[k]) = HISTORY_LEN =>
                      /\ Len(history'[k]) = HISTORY_LEN
                      /\ \A i \in 1..(HISTORY_LEN - 1) :
                            history'[k][i] = history[k][i + 1]]_vars

\* two appends beyond capacity: the two oldest values are gone
C22_Witness ==
    /\ trace.polls = HISTORY_LEN + 2
    /\ \A k \in HistoryKeys :
          /\ Len(history[k]) = HISTORY_LEN
          /\ history[k][1] = Synthetic(k, 2)
          /\ history[k][HISTORY_LEN] = cached_merged[k]

\* the smaller of two numbers
Min(a, b) == IF a <= b THEN a ELSE b

\* C23: a sampling tick appends exactly one value to each history buffer and
\* a render-only iteration appends none; the three buffers have the same
\* length, min(sampling ticks so far, HISTORY_LEN), and never hold None.
C23_OneAppendPerSamplingTick ==
    /\ [](\A k \in HistoryKeys :
            /\ Len(history[k]) = Min(trace.polls, HISTORY_LEN)
            /\ \A i \in 1..Len(history[k]) : history[k][i] # PyNone)
    /\ [][/\ ~SamplingStep => history' = history
          /\ SamplingStep =>
                \A k \in HistoryKeys :
                    LET n == Len(history'[k]) IN
                    /\ n = Min(Len(history[k]) + 1, HISTORY_LEN)
                    /\ history'[k][n] = cached_merged'[k]
                    /\ SubSeq(history'[k], 1, n - 1) =
                          LastN(history[k], n - 1)]_vars

\* a render-only iteration is about to sleep: the buffers are as the last
\* sampling tick left them
C23_Witness ==
    /\ pc = "sleep"
    /\ trace.polls = 3
    /\ trace.iters = 6
    /\ \A k \in HistoryKeys :
          /\ Len(history[k]) = 3
          /\ trace.S[k] = PyNone
          /\ history[k][3] # PyNone


\* the keys of a sensor reading
SensorKeys == {"temperature", "humidity", "pressure", "gas"}

\* the last step polled the sources
Polled == trace.dev # NoTrace.dev

\* the sensor failed in the last poll: no library, no device, an
\* initialisation that raised, a read that returned false or raised
SensorFailed ==
    \/ trace.dev.init \in {"nolib", "notfound", "config_raises"}
    \/ trace.dev.read \in {"nodata", "raises"}

\* C24: read_sensor never raises to its caller; when the library is missing,
\* no device is found, initialisation fails, or a read returns false or
\* raises, it returns a fragment whose temperature, humidity, pressure and gas
\* are None.
C24_ReadSensorNeverRaises ==
    /\ ~(ret.op = "poll" /\ ret.raised)
    /\ Polled =>
          /\ pc = "render"
          /\ status = "alive"
          /\ SensorFailed => \A k \in SensorKeys : trace.S[k] = PyNone
          /\ ~SensorFailed => trace.S = SensorData(now)

\* the device raised in get_sensor_data and the tick went on to the log
C24_Witness ==
    /\ Polled
    /\ trace.dev.init = "ok"
    /\ trace.dev.read = "raises"
    /\ "sensor" \in trace.caught
    /\ \A k \in SensorKeys : trace.S[k] = PyNone
    /\ TickLogged
    /\ status = "alive"


\* C25 as the specification states it: once sensor initialisation has failed,
\* every later read_sensor call returns absent data and does not attempt
\* initialisation again.
C25_AsStated ==
    [][(trace.initFailed /\ SamplingStep) =>
          /\ trace'.dev.init = "skipped"
          /\ \A k \in SensorKeys : trace'.S[k] = PyNone]_vars

\* C25: while the module holds no driver object every read_sensor call
\* attempts initialisation again, returns absent data when that fails and the
\* reading when it and the read succeed; once a driver object exists, also one
\* whose configuration raised, initialisation is not attempted again and the
\* call reads from that object.
C25_RetriesWhileNoDriver ==
    [][SamplingStep =>
          /\ sensor = "None" =>
                /\ trace'.dev.init \in SensorInits
                /\ trace'.dev.init # "ok" =>
                      /\ trace'.dev.read = "skipped"
                      /\ \A k \in SensorKeys : trace'.S[k] = PyNone
                /\ sensor' = "None" <=> trace'.dev.init \in {"nolib", "notfound"}
          /\ sensor = "object" => trace'.dev.init = "skipped" /\ sensor' = "object"
          /\ trace'.dev.read = "data" <=> trace'.S = SensorData(now')
          /\ trace'.dev.read = "data" =>
                (sensor = "object" \/ trace'.dev.init = "ok")]_vars

\* initialisation had failed, a later poll initialised the sensor and logged
\* its reading
C25_Witness ==
    /\ trace.initFailed
    /\ Polled
    /\ trace.dev.init = "ok"
    /\ trace.dev.read = "data"
    /\ trace.S = SensorData(now)
    /\ sensor = "object"
    /\ TickLogged


SyntheticCells ==
    [k \in HistoryKeys |-> {Synthetic(k, n) : n \in 0..HISTORY_LEN}]

\* a data row of a tick without sensor and without GPS: eight cells, a
\* timestamp, and every other cell empty or synthetic
AbsentRow(row) ==
    /\ IsDataRow(row)
    /\ Len(row) = 8
    /\ \A i \in 1..Len(FIELD_NAMES) :
          CASE FIELD_NAMES[i] = "timestamp" -> row[i] # Blank
            [] FIELD_NAMES[i] \in HistoryKeys ->
                  row[i] = Blank \/ row[i] \in SyntheticCells[FIELD_NAMES[i]]
            [] OTHER -> row[i] = Blank

\* C27: with both sources absent on every poll and the file system healthy,
\* k sampling ticks leave the header, the marker and exactly k data rows in
\* the session file, each of eight cells that are empty or synthetic, and no
\* exception leaves the loop.
C27_AbsentSourcesStillLog ==
    trace.start = "ok" =>
        LET rows == Contents(files, LOG_FILE)
        IN  /\ status = "alive"
            /\ pc # "exited"
            /\ trace.logs = trace.polls
            /\ Len(rows) = 2 + trace.polls
            /\ IsHeader(rows[1])
            /\ IsMarker(rows[2])
            /\ \A i \in 3..Len(rows) : AbsentRow(rows[i])

\* one hundred ticks without hardware: one hundred data rows
C27_Witness ==
    /\ trace.start = "ok"
    /\ trace.polls = 100
    /\ \A k \in SensorKeys \cup GpsKeys : k \notin DOMAIN trace.S \/ trace.S[k] = PyNone
    /\ trace.G = NoData
    /\ Len(Contents(files, LOG_FILE)) = 102
    /\ AbsentRow(Last(Contents(files, LOG_FILE)))
    /\ LoggedCell("temperature") = Synthetic("temperature", 99)
    /\ LoggedCell("gas") = Blank


\* the cell of column k in a row
Cell(row, k) == row[CHOOSE i \in 1..Len(FIELD_NAMES) : FIELD_NAMES[i] = k]

\* C28: after a tick with a reading and a fix, a tick with a reading and no
\* fix, and a tick with neither, the session file holds the header, the marker
\* and exactly three data rows; the first has eight non-empty cells, the
\* second and third have empty latitude, longitude and altitude, and the
\* sensor cells of the third are empty or synthetic.
C28_ThreeTickScenario ==
    LET rows == Contents(files, LOG_FILE)
    IN  /\ status # "exit1"
        /\ (trace.polls >= 1 /\ trace.polls <= 3) => Len(rows) = 2 + trace.polls
        /\ trace.polls = 3 =>
              /\ IsHeader(rows[1])
              /\ IsMarker(rows[2])
              /\ \A i \in 3..5 : IsDataRow(rows[i]) /\ Len(rows[i]) = 8
              /\ \A c \in 1..8 : rows[3][c] # Blank
              /\ \A k \in GpsKeys : Cell(rows[4], k) = Blank /\ Cell(rows[5], k) = Blank
              /\ \A k \in SensorKeys : Cell(rows[4], k) = SensorData(now)[k]
              /\ \A k \in HistoryKeys :
                    Cell(rows[5], k) = Blank \/ Cell(rows[5], k) \in SyntheticCells[k]
              /\ Cell(rows[5], "gas") = Blank

\* the third tick has just been logged
C28_Witness ==
    /\ trace.polls = 3
    /\ TickLogged
    /\ Len(Contents(files, LOG_FILE)) = 5
    /\ Cell(Contents(files, LOG_FILE)[3], "latitude") = <<"3", "7", ".", "8">>
    /\ Cell(Contents(files, LOG_FILE)[3], "altitude") = <<"10.0">>
    /\ Cell(Contents(files, LOG_FILE)[4], "latitude") = Blank
    /\ Cell(Contents(files, LOG_FILE)[4], "temperature") = <<"21.0">>
    /\ LoggedCell("temperature") = Synthetic("temperature", 2)
    /\ LoggedCell("latitude") = Blank


\* C29: between calls of init_log and log_data, whatever their outcomes,
\* _initialized is True exactly when LOG_FILE is not None.
C29_FlagFollowsName == _initialized <=> LOG_FILE # PyNone

\* a log_data call whose re-initialisation failed, after an earlier session:
\* the name and the flag were both reset
C29_Witness ==
    /\ ret.op = "log_data"
    /\ ret.inits = <<"fail">>
    /\ sessions # <<>>
    /\ LOG_FILE = PyNone
    /\ ~_initialized


\* C30: the logging timer and the sensor-read timer of main() are equal at
\* the end of every iteration, and log_data is called exactly once in every
\* poll of the sources, with the merged reading that entered the history.
C30_OneLogPerPoll ==
    /\ [](/\ last_log_time = last_sensor_read
          /\ trace.logs = trace.polls)
    /\ [][/\ SamplingStep =>
                /\ trace'.logs = trace.logs + 1
                /\ ret'.op = "log_data"
                /\ ret'.data = cached_merged'
                /\ \A k \in HistoryKeys : Last(history'[k]) = ret'.data[k]
                /\ last_log_time' = current_time
                /\ last_sensor_read' = current_time
          /\ ~SamplingStep =>
                /\ trace'.logs = trace.logs
                /\ history' = history
                /\ (pc # "start" =>
                       /\ last_log_time' = last_log_time
                       /\ last_sensor_read' = last_sensor_read)]_vars

\* the second poll has been logged and both timers hold its time
C30_Witness ==
    /\ trace.polls = 2
    /\ trace.logs = 2
    /\ TickLogged
    /\ ret.data = cached_merged
    /\ last_log_time = current_time
    /\ last_sensor_read = current_time
    /\ last_log_time > LOOP_DELAY

====
